---- MODULE Spec2Model ----
(***************************************************************************)
(* Model of the trading dashboard script src/app.py: the Notion record     *)
(* loader (load_notion_data, memoized for 60 seconds), the metrics         *)
(* transformer (process_dataframe), the monthly aggregation and the        *)
(* top-to-bottom script run that Streamlit performs on every render.       *)
(*                                                                         *)
(* Encodings.  A datetime is a positive integer t with                     *)
(* day = t \div SlotsPerDay and month = day \div DaysPerMonth; Python's    *)
(* None / pandas' NaT is 0 and the NaN month key of a NaT row is -1.       *)
(* Amounts are integers.  Percentage and label columns, which no checked   *)
(* property reads, are left out of the frame.                              *)
(***************************************************************************)
EXTENDS Integers, Sequences, FiniteSets, TLC

VARIABLES secrets_ok, remote, cache, initial_capital, selected_tab,
          stage, queried, load_error, raw_data, transformed, df, kpi,
          monthly, button_shown, chart

vars == <<secrets_ok, remote, cache, initial_capital, selected_tab,
          stage, queried, load_error, raw_data, transformed, df, kpi,
          monthly, button_shown, chart>>

\* ------------------------------------------------------------------ bounds
MaxRows == 3
MaxAge == 61
SlotsPerDay == 2
DaysPerMonth == 2

\* ------------------------------------------------------- program constants
TTL == 60
InitialCapital == 18600

None == 0
NaT == 0
NaN == 0 - 1

At(day, slot) == day * SlotsPerDay + slot

\* ------------------------------------------------------------ source rows
Title(k, text) == [k |-> k, text |-> text]
Num(v) == [k |-> "num", v |-> v]
NumK(k) == [k |-> k, v |-> 0]
Range(s, e) == [k |-> "range", start |-> s, end |-> e]
DateK(k) == [k |-> k, start |-> None, end |-> None]
Page(n, s, p, d) ==
    [has_properties |-> TRUE, Name |-> n, Symbol |-> s, PnL |-> p,
     TradeDate |-> d]

NoTitle == Title("absent", "")
Aapl == Title("text", "AAPL")

GoodRows ==
    { Page(Aapl, NoTitle, Num(100), Range(At(2, 0), None)),
      Page(Aapl, NoTitle, Num(0 - 50), Range(At(2, 0), At(3, 1))),
      Page(NoTitle, Title("text", "TSLA"), Num(25), Range(At(4, 0), None)),
      Page(Title("empty", ""), NoTitle, NumK("null"), Range(At(2, 1), None)),
      Page(Aapl, NoTitle, NumK("absent"), Range(None, At(5, 0))) }

BadRows ==
    { [Page(Aapl, NoTitle, Num(100), Range(At(2, 0), None))
          EXCEPT !.has_properties = FALSE],
      Page(Aapl, NoTitle, NumK("text"), Range(At(2, 0), None)),
      Page(Aapl, NoTitle, NumK("shape"), Range(At(2, 0), None)),
      Page(Title("noplain", ""), NoTitle, Num(100), Range(At(2, 0), None)),
      Page(Title("notitle", ""), NoTitle, Num(100), Range(At(2, 0), None)),
      Page(Aapl, NoTitle, Num(100), DateK("absent")),
      Page(Aapl, NoTitle, Num(100), DateK("null")),
      Page(Aapl, NoTitle, Num(100), DateK("shape")),
      Page(Aapl, NoTitle, Num(100), Range(None, None)) }

RowSet == GoodRows \cup BadRows

SeqsUpTo(S, n) == UNION { [1..k -> S] : k \in 0..n }

\* ------------------------------------------------- load_notion_data, rows
Raise == [raised |-> TRUE, numeric |-> FALSE, val |-> 0, text |-> ""]
Value(v) == [raised |-> FALSE, numeric |-> TRUE, val |-> v, text |-> ""]
Text(s) == [raised |-> FALSE, numeric |-> FALSE, val |-> 0, text |-> s]

\* lines 106-107 / 108-109 for one title property:
\*   "X" in props and props["X"]["title"]  ->  props["X"]["title"][0]["plain_text"]
\* "next" means the condition was falsy and the following branch is tried.
TitleBranch(p) ==
    CASE p.k = "absent"  -> Text("next")
      [] p.k = "notitle" -> Raise
      [] p.k = "empty"   -> Text("next")
      [] p.k = "noplain" -> Raise
      [] OTHER           -> Text(p.text)

ResolveSymbol(props) ==
    LET n == TitleBranch(props.Name)
        s == TitleBranch(props.Symbol)
    IN  IF n.raised THEN Raise
        ELSE IF n.text # "next" THEN n
        ELSE IF s.raised THEN Raise
        ELSE IF s.text # "next" THEN s
        ELSE Text("Unknown")

\* lines 113-114: props.get("P&L", {}).get("number", 0); None becomes 0
ResolvePnl(props) ==
    CASE props.PnL.k = "absent" -> Value(0)
      [] props.PnL.k = "shape"  -> Raise
      [] props.PnL.k = "null"   -> Value(0)
      [] props.PnL.k = "text"   -> Text("n/a")
      [] OTHER                  -> Value(props.PnL.v)

\* line 121: date_prop.get("end") or date_prop.get("start")
EndOrStart_StartFirst(date_prop) ==
    IF date_prop.start # None THEN date_prop.start ELSE date_prop.end

EndOrStart(date_prop) ==
    IF date_prop.end # None THEN date_prop.end ELSE date_prop.start

\* lines 118-123: "skip" is the continue of line 123
ResolveDate(props) ==
    CASE props.TradeDate.k = "shape"  -> Raise
      [] props.TradeDate.k = "absent" -> Text("skip")
      [] props.TradeDate.k = "null"   -> Text("skip")
      [] props.TradeDate.k = "empty"  -> Text("skip")
      [] OTHER                        -> Value(EndOrStart(props.TradeDate))

\* lines 127-128
Classify_NoBreakEven(pnl) == IF pnl > 0 THEN "Win" ELSE "Loss"

Classify(pnl) ==
    IF pnl = 0 THEN "Break Even"
    ELSE IF pnl > 0 THEN "Win" ELSE "Loss"

NoRecord == [Symbol |-> "", Date |-> None, PnL |-> 0, Result |-> ""]

\* One iteration of the loop of lines 98-140.  "abort" is an exception that
\* escapes the per-row try (line 99 is outside it), "skip" is a continue.
ParseRow(page) ==
    IF ~page.has_properties THEN [outcome |-> "abort", rec |-> NoRecord]
    ELSE
    LET symbol == ResolveSymbol(page)
        pnl == ResolvePnl(page)
        date == ResolveDate(page)
    IN  IF symbol.raised \/ pnl.raised \/ date.raised
          THEN [outcome |-> "skip", rec |-> NoRecord]
        ELSE IF ~date.numeric THEN [outcome |-> "skip", rec |-> NoRecord]
        ELSE IF ~pnl.numeric THEN [outcome |-> "skip", rec |-> NoRecord]
        ELSE [outcome |-> "rec",
              rec |-> [Symbol |-> symbol.text, Date |-> date.val,
                       PnL |-> pnl.val, Result |-> Classify(pnl.val)]]

RECURSIVE LoadLoop(_, _, _)
LoadLoop(results, i, data) ==
    IF i > Len(results) THEN [data |-> data, error |-> ""]
    ELSE LET r == ParseRow(results[i])
         IN  CASE r.outcome = "abort" ->
                    [data |-> <<>>, error |-> "connect_failed"]
               [] r.outcome = "skip" -> LoadLoop(results, i + 1, data)
               [] OTHER -> LoadLoop(results, i + 1, Append(data, r.rec))

\* lines 84-146, the body run on a cache miss
load_notion_data(service) ==
    CASE service.status = "down" -> [data |-> <<>>, error |-> "connect_failed"]
      [] service.status = "no_sources" ->
            [data |-> <<>>, error |-> "no_data_source"]
      [] OTHER -> LoadLoop(service.rows, 1, <<>>)

\* --------------------------------------------------- process_dataframe
\* line 161, pd.to_datetime: an ISO string is represented by the instant it
\* denotes, None parses to NaT
to_datetime(v) == IF v = None THEN NaT ELSE v

\* line 163, Series.dt.normalize: midnight of the same day
normalize(t) == IF t = NaT THEN NaT ELSE (t \div SlotsPerDay) * SlotsPerDay

\* line 179, strftime('%Y-%m'): the month key, NaN for NaT
strftime_month(t) ==
    IF t = NaT THEN NaN ELSE (t \div SlotsPerDay) \div DaysPerMonth

\* lines 160-163: the frame before sorting; idx is the DataFrame index
Frame(data) ==
    [i \in 1..Len(data) |->
        [idx |-> i, Symbol |-> data[i].Symbol,
         Date |-> normalize(to_datetime(data[i].Date)),
         PnL |-> data[i].PnL, Result |-> data[i].Result]]

Perms(n) ==
    { p \in [1..n -> 1..n] : \A i, j \in 1..n : p[i] = p[j] => i = j }

\* sort order of sort_values: ascending, NaT last (na_position='last')
Before(x, y) == x # NaT /\ (y = NaT \/ x < y)

\* line 165, df.sort_values(by='Date') with the default kind='quicksort',
\* which pandas documents as not stable: any ordering that is ascending by
\* Date is a possible outcome.
sort_values(rows) ==
    LET n == Len(rows)
    IN  { [i \in 1..n |-> rows[p[i]]] :
            p \in { q \in Perms(n) :
                      \A i, j \in 1..n :
                          i < j => ~Before(rows[q[j]].Date, rows[q[i]].Date) } }

\* line 166, Series.cumsum: the running sum up to and including row i
RECURSIVE cumsum_Exclusive(_, _)
cumsum_Exclusive(rows, i) ==
    IF i <= 1 THEN 0 ELSE cumsum_Exclusive(rows, i - 1) + rows[i - 1].PnL

RECURSIVE cumsum(_, _)
cumsum(rows, i) ==
    IF i = 0 THEN 0 ELSE cumsum(rows, i - 1) + rows[i].PnL

\* lines 166-180
Enrich(rows, capital) ==
    [i \in 1..Len(rows) |->
        [idx |-> rows[i].idx, Symbol |-> rows[i].Symbol,
         Date |-> rows[i].Date, PnL |-> rows[i].PnL,
         Result |-> rows[i].Result,
         Cumulative |-> cumsum(rows, i),
         Equity |-> capital + cumsum(rows, i),
         Month_Sort |-> strftime_month(rows[i].Date)]]

\* lines 159-181; the set of frames the call can return
process_dataframe(data, capital) ==
    { Enrich(s, capital) : s \in sort_values(Frame(data)) }

\* lines 186-193, the KPI row (iloc[-1] of the frame)
NoKpi == [equity |-> 0, total_pl |-> 0, trades |-> 0]
Kpi(d) ==
    IF Len(d) = 0 THEN NoKpi
    ELSE [equity |-> d[Len(d)].Equity, total_pl |-> d[Len(d)].Cumulative,
          trades |-> Len(d)]

RECURSIVE Ascending(_)
Ascending(S) ==
    IF S = {} THEN <<>>
    ELSE LET m == CHOOSE x \in S : \A y \in S : x <= y
         IN  <<m>> \o Ascending(S \ {m})

RECURSIVE SumWhere(_, _, _)
SumWhere(d, i, key) ==
    IF i = 0 THEN 0
    ELSE SumWhere(d, i - 1, key)
         + (IF d[i].Month_Sort = key THEN d[i].PnL ELSE 0)

\* lines 276-277: groupby(['Month_Sort', 'Month'])['P&L'].sum() drops the
\* rows whose key is NaN (dropna=True), then sort_values('Month_Sort')
monthly_df(d) ==
    LET keys == Ascending({ d[i].Month_Sort : i \in 1..Len(d) } \ {NaN})
    IN  [k \in 1..Len(keys) |->
            [Month_Sort |-> keys[k], PnL |-> SumWhere(d, Len(d), keys[k])]]

\* --------------------------------------------------------- the script run
Tabs == {"Account Growth", "Daily P&L", "Monthly Returns", "Win Rate"}

NoResult == [data |-> <<>>, error |-> ""]
NoCache == [present |-> FALSE, age |-> 0, value |-> NoResult]

\* line 83, st.cache_data(ttl=60): an entry is served while younger than ttl
CacheHit_Never(c) == FALSE

CacheHit(c) == c.present /\ c.age < TTL

\* line 152, "if not raw_data"
IsEmptyState_Never(data) == FALSE

IsEmptyState(data) == Len(data) = 0

\* One top-to-bottom run of the script (lines 76-306).  pressed: the run was
\* triggered by the button of line 194; tab: the value of the radio widget.
ScriptRun(pressed, tab) ==
    /\ selected_tab' = tab
    /\ UNCHANGED <<secrets_ok, remote, initial_capital>>
    /\ IF ~secrets_ok
         THEN \* lines 79-81
              /\ stage' = "config_error"
              /\ queried' = FALSE
              /\ load_error' = ""
              /\ raw_data' = <<>>
              /\ transformed' = FALSE
              /\ df' = <<>>
              /\ kpi' = NoKpi
              /\ monthly' = <<>>
              /\ button_shown' = FALSE
              /\ chart' = "none"
              /\ UNCHANGED cache
         ELSE LET hit == CacheHit(cache)
                  res == IF hit THEN cache.value ELSE load_notion_data(remote)
                  stored == IF hit THEN cache
                            ELSE [present |-> TRUE, age |-> 0, value |-> res]
              IN  /\ queried' = ~hit
                  /\ load_error' = res.error
                  /\ raw_data' = res.data
                  /\ IF IsEmptyState(res.data)
                       THEN \* lines 152-154
                            /\ stage' = "empty"
                            /\ cache' = stored
                            /\ transformed' = FALSE
                            /\ df' = <<>>
                            /\ kpi' = NoKpi
                            /\ monthly' = <<>>
                            /\ button_shown' = FALSE
                            /\ chart' = "none"
                       ELSE \* lines 183-306
                            \E d \in process_dataframe(res.data, initial_capital) :
                              /\ transformed' = TRUE
                              /\ df' = d
                              /\ kpi' = Kpi(d)
                              /\ button_shown' = TRUE
                              /\ IF pressed
                                   THEN \* lines 195-196
                                        /\ cache' = NoCache
                                        /\ stage' = "rerun"
                                        /\ monthly' = <<>>
                                        /\ chart' = "none"
                                   ELSE /\ cache' = stored
                                        /\ stage' = "shown"
                                        /\ monthly' =
                                             IF tab = "Monthly Returns"
                                               THEN monthly_df(d) ELSE <<>>
                                        /\ chart' = tab

\* a page load, an st_autorefresh tick (line 10) or the rerun of line 196
Render == ScriptRun(FALSE, selected_tab)

\* the radio widget of lines 198-203 changes value
SelectTab(t) ==
    /\ stage = "shown"
    /\ t # selected_tab
    /\ ScriptRun(FALSE, t)

\* the button of line 194 is clicked
PressRefresh ==
    /\ stage = "shown"
    /\ button_shown
    /\ ScriptRun(TRUE, selected_tab)

\* wall-clock time passes; the memoized entry ages
Tick(dt) ==
    /\ cache.present
    /\ cache.age + dt <= MaxAge
    /\ cache' = [cache EXCEPT !.age = cache.age + dt]
    /\ UNCHANGED <<secrets_ok, remote, initial_capital, selected_tab, stage,
                   queried, load_error, raw_data, transformed, df, kpi,
                   monthly, button_shown, chart>>

\* the remote service or the database content changes
RemoteChange(r) ==
    /\ r # remote
    /\ remote' = r
    /\ UNCHANGED <<secrets_ok, cache, initial_capital, selected_tab, stage,
                   queried, load_error, raw_data, transformed, df, kpi,
                   monthly, button_shown, chart>>

Service(status, rows) == [status |-> status, rows |-> rows]

Dated == Page(Aapl, NoTitle, Num(100), Range(At(2, 0), None))
Undated == Page(Aapl, NoTitle, Num(100), DateK("null"))

RemoteStates ==
    { Service("down", <<>>), Service("no_sources", <<>>), Service("ok", <<>>),
      Service("ok", <<Undated>>), Service("ok", <<Dated>>),
      Service("ok", <<Dated, Page(NoTitle, Title("text", "TSLA"), Num(25),
                                   Range(At(4, 0), None))>>) }

TickSteps == {1, 20}

InitView ==
    /\ cache = NoCache
    /\ selected_tab = "Account Growth"
    /\ stage = "init"
    /\ queried = FALSE
    /\ load_error = ""
    /\ raw_data = <<>>
    /\ transformed = FALSE
    /\ df = <<>>
    /\ kpi = NoKpi
    /\ monthly = <<>>
    /\ button_shown = FALSE
    /\ chart = "none"

Init ==
    /\ secrets_ok \in BOOLEAN
    /\ remote \in RemoteStates
    /\ initial_capital = InitialCapital
    /\ InitView

Next ==
    \/ Render
    \/ \E t \in Tabs : SelectTab(t)
    \/ PressRefresh
    \/ \E dt \in TickSteps : Tick(dt)
    \/ \E r \in RemoteStates : RemoteChange(r)

Spec == Init /\ [][Next]_vars

\* The loader and the transformer as functions of their inputs: every
\* sequence of source rows up to MaxRows and two starting capitals.
Capitals == {InitialCapital, 1000}

InitPipe ==
    /\ secrets_ok = TRUE
    /\ remote \in { Service("ok", rows) : rows \in SeqsUpTo(RowSet, MaxRows) }
    /\ initial_capital \in Capitals
    /\ InitView

NextPipe ==
    \/ Render
    \/ \E t \in Tabs : SelectTab(t)

SpecPipe == InitPipe /\ [][NextPipe]_vars

\* ================================================================ claims
Loaded == stage \in {"empty", "shown", "rerun"}

Rows == remote.rows

\* A source row the documented field policy accepts: mapping-shaped
\* properties, extractable title, numeric or missing P&L, resolvable date.
TitleUsable(p) == p.k \in {"absent", "empty", "text"}

WellFormedDated(page) ==
    /\ page.has_properties
    /\ TitleUsable(page.Name)
    /\ (page.Name.k = "text" \/ TitleUsable(page.Symbol))
    /\ page.PnL.k \in {"absent", "null", "num"}
    /\ page.TradeDate.k = "range"
    /\ (page.TradeDate.start # None \/ page.TradeDate.end # None)

ExpectedRecord(page) ==
    LET amount == IF page.PnL.k = "num" THEN page.PnL.v ELSE 0
    IN  [Symbol |-> IF page.Name.k = "text" THEN page.Name.text
                    ELSE IF page.Symbol.k = "text" THEN page.Symbol.text
                    ELSE "Unknown",
         Date |-> IF page.TradeDate.end # None THEN page.TradeDate.end
                  ELSE page.TradeDate.start,
         PnL |-> amount,
         Result |-> CASE amount > 0 -> "Win"
                      [] amount < 0 -> "Loss"
                      [] OTHER -> "Break Even"]

ExpectedRecords(rows) ==
    LET sel == SelectSeq(rows, WellFormedDated)
    IN  [i \in 1..Len(sel) |-> ExpectedRecord(sel[i])]

\* C1: whatever rows are malformed, the loader returns exactly the records
\* of the well-formed dated rows, in source order; no row aborts the batch.
C1_MalformedRowNeverAbortsBatch ==
    Loaded => raw_data = ExpectedRecords(Rows)

\* C2: every loaded record has a non-null Date; a row whose date is absent,
\* null or a range with neither start nor end contributes no record.
C2_EveryLoadedRecordHasDate ==
    Loaded =>
      /\ \A i \in 1..Len(raw_data) : raw_data[i].Date # None
      /\ Len(raw_data) <=
           Cardinality({ i \in 1..Len(Rows) :
                           /\ Rows[i].TradeDate.k = "range"
                           /\ \/ Rows[i].TradeDate.start # None
                              \/ Rows[i].TradeDate.end # None })

\* C3: the transformer runs only in a render whose load returned at least one
\* record; a load that returned nothing (failure reported as an error, or no
\* valid record) ends the render at the empty state, with no transformer call
\* and no chart.
C3_TransformerOnlyOnRecords ==
    /\ transformed => Len(raw_data) > 0
    /\ chart # "none" => transformed
    /\ (Loaded /\ Len(raw_data) = 0) =>
          (stage = "empty" /\ ~transformed /\ chart = "none" /\ df = <<>>)
    /\ load_error # "" => (Len(raw_data) = 0 /\ stage = "empty")

C3_Witness ==
    stage = "empty" /\ queried /\ load_error = "connect_failed"
    /\ remote.status = "down"

\* C4: every render that ends in the empty state offers the manual retry
\* control.
C4_RetryOfferedInEmptyState ==
    stage = "empty" => button_shown

\* C5: a script run queries the remote service only when no memoized result
\* younger than 60 seconds exists; a run that finds one reuses it; a press of
\* the refresh button discards the memoized result, and the rerun that
\* follows queries the service (a press whose own run already had to refetch
\* an expired result and got no record ends at the empty state instead).
Younger(c) == c.present /\ c.age < 60

ScriptStep == Render \/ (\E t \in Tabs : SelectTab(t)) \/ PressRefresh

C5_QueryOnlyWhenNoFreshResult ==
    [][ ScriptStep =>
          /\ queried' => ~Younger(cache)
          /\ (secrets_ok /\ Younger(cache)) =>
                (~queried' /\ raw_data' = cache.value.data)
          /\ PressRefresh =>
                \/ stage' = "rerun" /\ ~cache'.present
                \/ stage' = "empty" /\ queried'
          /\ stage = "rerun" =>
                (queried' /\ raw_data' = load_notion_data(remote).data) ]_vars

C5_Witness ==
    stage = "rerun" /\ ~cache.present /\ Len(raw_data) > 0 /\ ~queried

\* C6: Result is decided by the sign of the resolved P&L alone, a missing or
\* null source P&L resolving to 0, and takes no value but Win, Loss and
\* Break Even.
C6_ResultFollowsSign ==
    /\ \A i \in 1..Len(raw_data) :
          /\ raw_data[i].Result \in {"Win", "Loss", "Break Even"}
          /\ raw_data[i].PnL > 0 <=> raw_data[i].Result = "Win"
          /\ raw_data[i].PnL < 0 <=> raw_data[i].Result = "Loss"
          /\ raw_data[i].PnL = 0 <=> raw_data[i].Result = "Break Even"
    /\ (Loaded /\ Len(raw_data) = Len(Rows)) =>
          \A i \in 1..Len(Rows) :
             /\ Rows[i].PnL.k \in {"absent", "null"} => raw_data[i].PnL = 0
             /\ Rows[i].PnL.k = "num" => raw_data[i].PnL = Rows[i].PnL.v

C6_Witness ==
    /\ Loaded
    /\ Len(raw_data) = Len(Rows)
    /\ \E i, j, k \in 1..Len(Rows) :
          /\ Rows[i].PnL.k = "null" /\ raw_data[i].Result = "Break Even"
          /\ raw_data[j].Result = "Win"
          /\ raw_data[k].Result = "Loss"

\* C7: each row's Equity is the capital plus the sum of the P&L of the rows
\* up to and including it in date order; the last Cumulative P&L is the sum
\* of all P&L and the displayed equity is the capital plus that sum.
RECURSIVE SumPnL(_)
SumPnL(s) == IF Len(s) = 0 THEN 0 ELSE s[1].PnL + SumPnL(Tail(s))

C7_EquityIsCapitalPlusRunningSum ==
    transformed =>
      /\ Len(df) = Len(raw_data)
      /\ \A i, j \in 1..Len(df) : i < j => ~Before(df[j].Date, df[i].Date)
      /\ \A i \in 1..Len(df) :
            /\ df[i].Cumulative = SumPnL(SubSeq(df, 1, i))
            /\ df[i].Equity = initial_capital + SumPnL(SubSeq(df, 1, i))
      /\ df[Len(df)].Cumulative = SumPnL(raw_data)
      /\ kpi.total_pl = SumPnL(raw_data)
      /\ kpi.equity = initial_capital + SumPnL(raw_data)

C7_Witness ==
    /\ stage = "shown"
    /\ initial_capital = 1000
    /\ Len(df) = 3
    /\ df[1].PnL = 100 /\ df[2].PnL = 0 - 50 /\ df[3].PnL = 25
    /\ df[2].Equity = 1050
    /\ kpi.equity = 1075

\* C8: the monthly view has one bucket per distinct calendar month of the
\* frame, in ascending month order, and the bucket totals add up to the last
\* row's Cumulative P&L.
C8_MonthlyTotalsSumToGrandTotal ==
    (stage = "shown" /\ chart = "Monthly Returns") =>
      /\ SumPnL(monthly) = df[Len(df)].Cumulative
      /\ Len(monthly) =
            Cardinality({ df[i].Month_Sort : i \in 1..Len(df) })
      /\ \A a, b \in 1..Len(monthly) :
            a < b => monthly[a].Month_Sort < monthly[b].Month_Sort

\* C9: the enriched sequence is non-decreasing by normalised date and rows of
\* the same date keep the relative order they had in the loader's output.
C9_SortIsStable ==
    transformed =>
      \A i, j \in 1..Len(df) :
         i < j =>
           /\ ~Before(df[j].Date, df[i].Date)
           /\ df[i].Date = df[j].Date => df[i].idx < df[j].idx

\* C10: a loaded record's Date is the end of the source row's date range when
\* an end is present and the start otherwise.
C10_EndDatePreferred ==
    (Loaded /\ Len(raw_data) = Len(Rows)) =>
       \A i \in 1..Len(Rows) :
          /\ Rows[i].TradeDate.k = "range"
          /\ raw_data[i].Date =
                IF Rows[i].TradeDate.end # None THEN Rows[i].TradeDate.end
                ELSE Rows[i].TradeDate.start

C10_Witness ==
    /\ Loaded
    /\ Len(raw_data) = Len(Rows)
    /\ \E i, j \in 1..Len(Rows) :
          /\ Rows[i].TradeDate.start # None
          /\ Rows[i].TradeDate.end # None
          /\ Rows[i].TradeDate.start # Rows[i].TradeDate.end
          /\ raw_data[i].Date = Rows[i].TradeDate.end
          /\ Rows[j].TradeDate.end = None
          /\ raw_data[j].Date = Rows[j].TradeDate.start

====
